---- MODULE Spec2Model ----
(***************************************************************************)
(* Model of the project-analyzer extension: the workspace structure        *)
(* generator of src/src/workspace/analyzer.ts (WorkspaceAnalyzer) and the  *)
(* terminal logger (TerminalLogger).                                       *)
(*                                                                         *)
(* Text is modelled as a sequence of one-character strings, so that the    *)
(* glob-to-regex translation, trimming, splitting, sorting and extension   *)
(* extraction are computed character by character as the code does.        *)
(***************************************************************************)
EXTENDS Integers, Sequences, FiniteSets, TLC

VARIABLES
    folders,      \* vscode.workspace.workspaceFolders: TRUE iff a folder is open
    tree,         \* the file system below the root: a set of paths (sequences of names)
    gitignore,    \* text of <root>/.gitignore (read only when the file exists)
    packageJson,  \* what JSON.parse makes of <root>/package.json: "invalid", "null", "object"
    failing,      \* the I/O calls that fail: a set of <<operation, path>>
    snapshot,     \* file-system snapshot at the start of the latest run
    document,     \* the document returned by the latest analyzeWorkspace call
    written,      \* the text the latest run wrote to the output file
    ioLog,        \* the file-system calls the latest run issued, in order
    shown,        \* the vscode.window messages the latest run showed
    listed,       \* the paths of the entries the latest scan listed, in order
    rules,        \* the rule set loadGitignorePatterns returned to the latest run
    reversed,     \* the enumeration order the file system used in the latest run
    repeats,      \* TRUE iff the latest run started from the snapshot of the run before
    previous,     \* the document returned by the run before the latest
    igPath,       \* isIgnored called on its own: the path argument
    igRules,      \* isIgnored called on its own: the patterns argument
    igResult,     \* isIgnored called on its own: "none" before the call, then the result
    isLogging,          \* TerminalLogger.isLogging
    recordedData,       \* TerminalLogger.recordedData: a sequence of entries, each a sequence of lines
    hasUnsavedChanges,  \* TerminalLogger.hasUnsavedChanges
    lastSaveTimeout,    \* TerminalLogger.lastSaveTimeout: "undefined", "pending", or "spent"
                        \* (the handle of a timer that has fired or was cleared)
    orphanTimers,       \* pending save timers lastSaveTimeout no longer refers to
    appending,          \* the fs.appendFile calls in flight: the lines each one writes
    starting,           \* TRUE while startLogging awaits fs.readFile
    disposed,           \* TRUE once dispose() has run
    logFile,            \* the lines of the log file
    logShown,           \* the latest vscode.window message of the logger
    pushed,             \* the entries the execution events have pushed so far
    appendFailed,       \* TRUE once an fs.appendFile call was rejected
    toggles,            \* the toggleLogging commands given so far
    anStage,      \* the file analysis called on its own: "text", "analysis", "formatted"
    anContent,    \* the content argument of analyzeFileContent
    anExt,        \* the ext argument of analyzeFileContent
    anAnalysis,   \* the FileAnalysis returned, or handed to formatAnalysis
    anLevel,      \* the depth of the file's line, which gives formatAnalysis its indent
    anLines       \* the lines formatAnalysis returned

fsVars  == <<folders, tree, gitignore, packageJson, failing>>
runVars == <<snapshot, document, written, ioLog, shown, listed,
            rules, reversed, repeats, previous>>
igVars  == <<igPath, igRules, igResult>>
anVars  == <<anStage, anContent, anExt, anAnalysis, anLevel, anLines>>
logVars == <<isLogging, recordedData, hasUnsavedChanges, lastSaveTimeout, orphanTimers,
             appending, starting, disposed, logFile, logShown, pushed, appendFailed, toggles>>
vars    == <<folders, tree, gitignore, packageJson, failing,
             snapshot, document, written, ioLog, shown, listed,
             rules, reversed, repeats, previous,
             igPath, igRules, igResult,
             isLogging, recordedData, hasUnsavedChanges, lastSaveTimeout, orphanTimers,
             appending, starting, disposed, logFile, logShown, pushed, appendFailed, toggles,
             anStage, anContent, anExt, anAnalysis, anLevel, anLines>>

----------------------------------------------------------------------------
(* Bounds of the model *)

MaxEntries == 2   \* entries of a project tree, the root's .gitignore not counted
MaxPatLen  == 3   \* characters of a pattern given to isIgnored on its own
MaxPathLen == 3   \* characters of a path given to isIgnored on its own

----------------------------------------------------------------------------
(* Characters and strings *)

\* The characters the model uses, in UTF-16 code unit order.
Alphabet ==
    << "\n", " ", "!", "#", "*", "-", ".", "/", "?", "E", "N", "P", "V",
       "\\", "_", "a", "b", "c", "d", "e", "f", "g", "h", "i", "j", "k", "l",
       "m", "n", "o", "p", "q", "r", "s", "t", "u", "v", "w", "x", "y", "z" >>

\* the code unit order of the characters, as a function computed once
RECURSIVE CodesUpTo(_)
CodesUpTo(i) == IF i = 0 THEN <<>> ELSE (Alphabet[i] :> i) @@ CodesUpTo(i - 1)

CharCodes == CodesUpTo(Len(Alphabet))

CharCode(c) == CharCodes[c]

\* a < b as Array.prototype.sort() compares two strings without a comparator
RECURSIVE StrLess(_, _)
StrLess(a, b) ==
    IF b = <<>> THEN FALSE
    ELSE IF a = <<>> THEN TRUE
    ELSE IF Head(a) = Head(b) THEN StrLess(Tail(a), Tail(b))
    ELSE CharCode(Head(a)) < CharCode(Head(b))

StartsWith(s, p) == Len(s) >= Len(p) /\ SubSeq(s, 1, Len(p)) = p
EndsWith(s, p)   == Len(s) >= Len(p) /\ SubSeq(s, Len(s) - Len(p) + 1, Len(s)) = p

IsSpace(c) == c \in {" ", "\n"}

\* String.prototype.trim
RECURSIVE TrimLeft(_)
TrimLeft(s) == IF s # <<>> /\ IsSpace(Head(s)) THEN TrimLeft(Tail(s)) ELSE s

RECURSIVE TrimRight(_)
TrimRight(s) ==
    IF s # <<>> /\ IsSpace(s[Len(s)]) THEN TrimRight(SubSeq(s, 1, Len(s) - 1)) ELSE s

Trim(s) == TrimRight(TrimLeft(s))

\* String.prototype.split(sep) for a one-character separator
RECURSIVE SplitAcc(_, _, _)
SplitAcc(s, sep, cur) ==
    IF s = <<>> THEN <<cur>>
    ELSE IF Head(s) = sep THEN <<cur>> \o SplitAcc(Tail(s), sep, <<>>)
    ELSE SplitAcc(Tail(s), sep, Append(cur, Head(s)))

Split(s, sep) == SplitAcc(s, sep, <<>>)

\* Array.prototype.join(sep)
RECURSIVE Join(_, _)
Join(ss, sep) ==
    IF ss = <<>> THEN <<>>
    ELSE IF Len(ss) = 1 THEN ss[1]
    ELSE ss[1] \o <<sep>> \o Join(Tail(ss), sep)

Range(s) == { s[i] : i \in 1..Len(s) }

----------------------------------------------------------------------------
(* isIgnored: pattern to regular expression, and the regular expression test *)

\* .replace(/\./g, "\\.") : every dot becomes the escaped-dot token
EscapeDots(p) == [i \in 1..Len(p) |-> IF p[i] = "." THEN "\\." ELSE p[i]]

\* .replace(/\*\*/g, ".*") : leftmost non-overlapping pairs of stars become
\* the two characters "." (any character) and "*"
RECURSIVE ReplaceDoubleStar(_)
ReplaceDoubleStar(p) ==
    IF p = <<>> THEN <<>>
    ELSE IF Len(p) >= 2 /\ p[1] = "*" /\ p[2] = "*"
         THEN <<".", "*">> \o ReplaceDoubleStar(SubSeq(p, 3, Len(p)))
         ELSE <<Head(p)>> \o ReplaceDoubleStar(Tail(p))

\* .replace(/\*/g, "[^/]*") : every star still in the text, those written by
\* the previous replacement included
ReplaceStar(p) == [i \in 1..Len(p) |-> IF p[i] = "*" THEN "[^/]*" ELSE p[i]]

\* .replace(/\?/g, "[^/]")
ReplaceQuestion(p) == [i \in 1..Len(p) |-> IF p[i] = "?" THEN "[^/]" ELSE p[i]]

\* .replace(/\\/g, "/") : separators normalised to the forward slash
NormalizeSeparators(p) == [i \in 1..Len(p) |-> IF p[i] = "\\" THEN "/" ELSE p[i]]

\* pattern.trim().replace(/\\/g, "/"), then one leading and one trailing slash removed
NormalizePattern(pattern) ==
    LET t  == NormalizeSeparators(Trim(pattern))
        t1 == IF StartsWith(t, <<"/">>) THEN Tail(t) ELSE t
    IN  IF EndsWith(t1, <<"/">>) THEN SubSeq(t1, 1, Len(t1) - 1) ELSE t1

\* regexPattern: a sequence of regex tokens.  "\\." is a literal dot, "." any
\* character, "[^/]*" any run without a separator, "[^/]" one character that
\* is no separator; every other token is a literal character.
RegexPattern(pattern) ==
    ReplaceQuestion(ReplaceStar(ReplaceDoubleStar(EscapeDots(NormalizePattern(pattern)))))

\* the tokens re match the whole of s; ".*?" is the lazy any-run of the anchors
RECURSIVE RegexMatch(_, _)
RegexMatch(re, s) ==
    IF re = <<>> THEN s = <<>>
    ELSE LET t == Head(re) IN
         IF t = "[^/]*" THEN
              RegexMatch(Tail(re), s)
              \/ (s # <<>> /\ Head(s) # "/" /\ RegexMatch(re, Tail(s)))
         ELSE IF t = ".*?" THEN
              RegexMatch(Tail(re), s)
              \/ (s # <<>> /\ Head(s) # "\n" /\ RegexMatch(re, Tail(s)))
         ELSE IF t = "[^/]" THEN
              s # <<>> /\ Head(s) # "/" /\ RegexMatch(Tail(re), Tail(s))
         ELSE IF t = "." THEN
              s # <<>> /\ Head(s) # "\n" /\ RegexMatch(Tail(re), Tail(s))
         ELSE IF t = "\\." THEN
              s # <<>> /\ Head(s) = "." /\ RegexMatch(Tail(re), Tail(s))
         ELSE s # <<>> /\ Head(s) = t /\ RegexMatch(Tail(re), Tail(s))

\* the tokens re match a prefix of s (an alternative with no closing $)
RegexMatchPrefix(re, s) == \E k \in 0..Len(s) : RegexMatch(re, SubSeq(s, 1, k))

\* variant: the alternative for a component inside the path is left out
RegexTestThreeForms(re, path) ==
    \/ RegexMatch(re, path)
    \/ RegexMatchPrefix(re \o <<"/">>, path)
    \/ RegexMatch(<<".*?", "/">> \o re, path)

\* new RegExp(`^${re}$|^${re}/|^.*?/${re}$|^.*?/${re}/.*$`).test(path)
RegexTest(re, path) ==
    \/ RegexMatch(re, path)
    \/ RegexMatchPrefix(re \o <<"/">>, path)
    \/ RegexMatch(<<".*?", "/">> \o re, path)
    \/ RegexMatch(<<".*?", "/">> \o re \o <<"/", ".*?">>, path)

\* one turn of patterns.some(...): the pattern is translated and tested
PatternTest(pattern, normalizedPath) == RegexTest(RegexPattern(pattern), normalizedPath)

----------------------------------------------------------------------------
(* The file system the extension reads *)

GitignoreName   == <<".", "g", "i", "t", "i", "g", "n", "o", "r", "e">>
PackageJsonName == <<"p", "a", "c", "k", "a", "g", "e", ".", "j", "s", "o", "n">>
RequirementsTxt == <<"r", "e", "q", "u", "i", "r", "e", "m", "e", "n", "t", "s", ".", "t", "x", "t">>
PyprojectToml   == <<"p", "y", "p", "r", "o", "j", "e", "c", "t", ".", "t", "o", "m", "l">>
NodeModules     == <<"n", "o", "d", "e", "_", "m", "o", "d", "u", "l", "e", "s">>
Docs            == <<"d", "o", "c", "s">>
Build           == <<"b", "u", "i", "l", "d">>
SourceTs        == <<"a", ".", "t", "s">>
BytecodePyc     == <<"b", ".", "p", "y", "c">>

\* the names a directory of the modelled trees may hold
DirNames      == {Docs, Build, NodeModules}
FileNames     == {SourceTs, BytecodePyc, GitignoreName}
RootFileNames == {PackageJsonName, RequirementsTxt, PyprojectToml}

\* projectAnalyzer.outputPath and projectAnalyzer.structureFileName (defaults)
outputDir == <<>>
fileName  ==
    <<"p", "r", "o", "j", "e", "c", "t", "-", "s", "t", "r", "u", "c", "t", "u", "r", "e", ".", "m", "d">>

RootPath == <<>>

\* path.join(dir, name): a path is the sequence of names below the root
PathJoin(dirPath, name) == Append(dirPath, name)

Parent(path)   == SubSeq(path, 1, Len(path) - 1)
BaseName(path) == path[Len(path)]

\* variant: no entry is taken for a directory
IsDirectoryNever(path) == FALSE

\* stats.isDirectory()
IsDirectory(path) == BaseName(path) \in DirNames

\* fs.access(path).then(() => true).catch(() => false)
Exists(path) == path \in tree

Fails(op, path) == <<op, path>> \in failing

\* the entries fs.readdir(dirPath) returns, as a set
Entries(dirPath) ==
    { BaseName(p) : p \in { q \in tree : Len(q) = Len(dirPath) + 1 /\ Parent(q) = dirPath } }

----------------------------------------------------------------------------
(* loadGitignorePatterns *)

defaultPatterns ==
    << NodeModules,
       <<".", "g", "i", "t">>,
       <<"_", "_", "p", "y", "c", "a", "c", "h", "e", "_", "_">>,
       <<"*", ".", "p", "y", "c">>,
       <<"*", ".", "p", "y", "o">>,
       <<"*", ".", "p", "y", "d">>,
       <<".", "P", "y", "t", "h", "o", "n">>,
       <<"*", ".", "s", "o">>,
       <<"e", "n", "v">>,
       <<"v", "e", "n", "v">>,
       <<".", "e", "n", "v">>,
       <<".", "v", "e", "n", "v">>,
       <<"E", "N", "V">>,
       <<"e", "n", "v", ".", "b", "a", "k">>,
       <<"v", "e", "n", "v", ".", "b", "a", "k">> >>

\* the catch-all pattern seeded when there is no .gitignore
dotfilePattern == <<".", "*">>

\* variant: only blank lines are dropped
KeepsNonBlankLine(line) == line # <<>>

\* the filter of the .gitignore lines: blank, comment and negation lines go
KeepsLine(line) ==
    /\ line # <<>>
    /\ ~StartsWith(line, <<"#">>)
    /\ ~StartsWith(line, <<"!">>)

\* content.split("\n").map(trim).filter(...)
ParseGitignore(content) ==
    LET lines   == Split(content, "\n")
        trimmed == [i \in 1..Len(lines) |-> Trim(lines[i])]
    IN  SelectSeq(trimmed, KeepsLine)

DocsBuildPattern == <<"d", "o", "c", "s", "/", "b", "u", "i", "l", "d">>
CommentLine      == <<"#", " ", "c">>
NegationLine     == <<"!", "a", ".", "t", "s">>
PaddedBuildLine  == <<" ", "b", "u", "i", "l", "d", "/", " ">>

\* the texts of the .gitignore file the model draws from
GitignoreTexts ==
    { <<>>,
      Join(<<DocsBuildPattern, <<>>>>, "\n"),
      Join(<<CommentLine, <<>>, NegationLine, PaddedBuildLine>>, "\n") }

\* ParseGitignore of every text of GitignoreTexts, computed once
ParseTable == { <<g, ParseGitignore(g)>> : g \in GitignoreTexts }

ParseGitignoreText(content) ==
    IF content \in GitignoreTexts
    THEN (CHOOSE e \in ParseTable : e[1] = content)[2]
    ELSE ParseGitignore(content)

\* variant: the default exclusions are appended only when there is no
\* .gitignore, so a custom ignore-file switches them off
LoadGitignoreWithoutDefaults ==
    LET gitignorePath   == PathJoin(RootPath, GitignoreName)
        gitignoreExists == Exists(gitignorePath)
        readFails       == Fails("readFile", gitignorePath)
        patterns        == IF gitignoreExists /\ ~readFails
                           THEN ParseGitignoreText(gitignore) ELSE <<>>
    IN  [ patterns |-> IF gitignoreExists
                       THEN patterns
                       ELSE <<dotfilePattern>> \o defaultPatterns,
          log      |-> <<<<"access", gitignorePath>>>>
                       \o (IF gitignoreExists THEN <<<<"readFile", gitignorePath>>>> ELSE <<>>) ]

\* variant: the catch-all dotfile pattern is never added
LoadGitignoreWithoutCatchAll ==
    LET gitignorePath   == PathJoin(RootPath, GitignoreName)
        gitignoreExists == Exists(gitignorePath)
        readFails       == Fails("readFile", gitignorePath)
        patterns        == IF gitignoreExists /\ ~readFails
                           THEN ParseGitignoreText(gitignore) ELSE <<>>
    IN  [ patterns |-> patterns \o defaultPatterns,
          log      |-> <<<<"access", gitignorePath>>>>
                       \o (IF gitignoreExists THEN <<<<"readFile", gitignorePath>>>> ELSE <<>>) ]

\* the rule set of the run, and the file-system calls made to build it;
\* the parse of a text of GitignoreTexts is looked up in ParseTable
LoadGitignorePatterns ==
    LET gitignorePath   == PathJoin(RootPath, GitignoreName)
        gitignoreExists == Exists(gitignorePath)
        readFails       == Fails("readFile", gitignorePath)
        patterns        == IF gitignoreExists /\ ~readFails
                           THEN ParseGitignoreText(gitignore) ELSE <<>>
        hasGitignore    == gitignoreExists
    IN  [ patterns |-> IF hasGitignore
                       THEN patterns \o defaultPatterns
                       ELSE <<dotfilePattern>> \o defaultPatterns,
          log      |-> <<<<"access", gitignorePath>>>>
                       \o (IF gitignoreExists THEN <<<<"readFile", gitignorePath>>>> ELSE <<>>) ]

----------------------------------------------------------------------------
(* isIgnored *)

\* isIgnored(filePath, patterns): patterns.some(...)
IsIgnored(filePath, patterns) ==
    LET normalizedPath == NormalizeSeparators(filePath) IN
    \E i \in 1..Len(patterns) : PatternTest(patterns[i], normalizedPath)

\* The calls of isIgnored a run of the generator can make, computed once:
\* every name of the modelled trees against every rule set a run can load.
KnownNames    == DirNames \cup FileNames \cup RootFileNames \cup {fileName}
KnownRuleSets ==
    { <<dotfilePattern>> \o defaultPatterns }
    \cup { ParseGitignore(g) \o defaultPatterns : g \in GitignoreTexts }

IgnoredTable ==
    { <<q[1], q[2], IsIgnored(q[1], q[2])>> : q \in KnownNames \X KnownRuleSets }

\* this.isIgnored(relativePath, ignorePatterns) as scanDirectory calls it:
\* IsIgnored, looked up in the table where the table has the call
IsIgnoredCall(filePath, patterns) ==
    IF filePath \in KnownNames /\ patterns \in KnownRuleSets
    THEN <<filePath, patterns, TRUE>> \in IgnoredTable
    ELSE IsIgnored(filePath, patterns)

----------------------------------------------------------------------------
(* analyzeFileContent and formatAnalysis *)

\* a line of the generated text: `mark` is the fixed text of the line, `name`
\* the variable text it carries, `indent` the depth of the two-space indent
Line(indent, mark, name) == [indent |-> indent, mark |-> mark, name |-> name]

\* path.extname(file): from the last dot, unless that dot starts the name
ExtName(file) ==
    LET dots == { i \in 1..Len(file) : file[i] = "." } IN
    IF dots = {} THEN <<>>
    ELSE LET last == CHOOSE i \in dots : \A j \in dots : j <= i IN
         IF last = 1 THEN <<>> ELSE SubSeq(file, last, Len(file))

ExtTs  == <<".", "t", "s">>
ExtJs  == <<".", "j", "s">>
ExtJsx == <<".", "j", "s", "x">>
ExtTsx == <<".", "t", "s", "x">>
ExtVue == <<".", "v", "u", "e">>
ExtPy  == <<".", "p", "y">>

\* the extensions whose files scanDirectory reads
ReadExtensions == {ExtJs, ExtTs, ExtJsx, ExtTsx, ExtVue, ExtPy}
ScriptExtensions == {ExtJs, ExtTs, ExtJsx, ExtTsx}

EmptyAnalysis ==
    [ imports |-> <<>>, functions |-> <<>>, classes |-> <<>>,
      exports |-> <<>>, methods |-> <<>>, components |-> <<>> ]

\* Source text is a sequence of statements, each a record [shape, name]: the
\* lexical shape the extractor's regular expressions recognise, and the
\* identifier it declares.  `export function foo() {}` is matched by the
\* function, the method and the export expression.
RECURSIVE AnalyzeScript(_)
AnalyzeScript(content) ==
    IF content = <<>> THEN EmptyAnalysis
    ELSE LET st   == Head(content)
             rest == AnalyzeScript(Tail(content))
         IN  IF st.shape = "export function"
             THEN [rest EXCEPT !.functions = <<st.name>> \o @,
                               !.methods   = <<st.name>> \o @,
                               !.exports   = <<st.name>> \o @]
             ELSE rest

\* [...new Set(array)]: the distinct elements in first-seen order
RECURSIVE Distinct(_)
Distinct(seq) ==
    IF seq = <<>> THEN <<>>
    ELSE LET init == Distinct(SubSeq(seq, 1, Len(seq) - 1))
             last == seq[Len(seq)]
         IN  IF last \in Range(init) THEN init ELSE Append(init, last)

\* `import ${fromModule}${name}${asName}`
ImportText(module, name, alias) ==
    <<"i", "m", "p", "o", "r", "t", " ">>
    \o (IF module # <<>> THEN module \o <<".">> ELSE <<>>)
    \o name
    \o (IF alias # <<>> THEN <<" ", "a", "s", " ">> \o alias ELSE <<>>)

\* the entries one import statement pushes: one for each imported name
ImportEntries(st) ==
    [i \in 1..Len(st.names) |-> ImportText(st.module, st.names[i], st.alias)]

\* the matches of the four expressions of the Python branch, in text order.
\* A Python statement is a record whose shape is "import" (with module, names
\* and alias), "def" (a def at line start), "method" (a def behind four
\* spaces) or "class".
RECURSIVE PythonMatches(_)
PythonMatches(content) ==
    IF content = <<>> THEN EmptyAnalysis
    ELSE LET st   == Head(content)
             rest == PythonMatches(Tail(content))
         IN  IF st.shape = "import" THEN [rest EXCEPT !.imports = ImportEntries(st) \o @]
             ELSE IF st.shape = "def" THEN [rest EXCEPT !.functions = <<st.name>> \o @]
             ELSE IF st.shape = "class" THEN [rest EXCEPT !.classes = <<st.name>> \o @]
             ELSE IF st.shape = "method" THEN [rest EXCEPT !.methods = <<st.name>> \o @]
             ELSE rest

\* the Python branch: imports and classes are pushed match by match, functions
\* and methods go through a Set
AnalyzePython(content) ==
    LET found == PythonMatches(content) IN
    [found EXCEPT !.functions = Distinct(found.functions),
                  !.methods   = Distinct(found.methods)]

AnalyzeFileContent(content, ext) ==
    IF ext \in ScriptExtensions THEN AnalyzeScript(content)
    ELSE IF ext = ExtPy THEN AnalyzePython(content)
    ELSE EmptyAnalysis

\* variant: the label is written for an empty field as well
FormatFieldAlways(label, items, indent) ==
    <<Line(indent, label, <<>>)>>
    \o [i \in 1..Len(items) |-> Line(indent, "    - ", items[i])]

\* one labelled list of formatAnalysis
FormatField(label, items, indent) ==
    IF Len(items) > 0
    THEN <<Line(indent, label, <<>>)>>
         \o [i \in 1..Len(items) |-> Line(indent, "    - ", items[i])]
    ELSE <<>>

FormatAnalysis(analysis, indent) ==
    FormatField("  - Imports:", analysis.imports, indent)
    \o FormatField("  - Exports:", analysis.exports, indent)
    \o FormatField("  - Functions:", analysis.functions, indent)
    \o FormatField("  - Classes:", analysis.classes, indent)
    \o FormatField("  - Methods:", analysis.methods, indent)
    \o FormatField("  - Components:", analysis.components, indent)

\* the text fs.readFile returns for a source file of the tree
FileText(path) ==
    IF ExtName(BaseName(path)) = ExtTs
    THEN << [shape |-> "export function", name |-> <<"f", "o", "o">>] >>
    ELSE <<>>

----------------------------------------------------------------------------
(* scanDirectory *)

\* files.sort(): insertion into the sorted prefix, by code unit order
RECURSIVE InsertSorted(_, _)
InsertSorted(sorted, x) ==
    IF sorted = <<>> THEN <<x>>
    ELSE IF StrLess(x, Head(sorted)) THEN <<x>> \o sorted
    ELSE <<Head(sorted)>> \o InsertSorted(Tail(sorted), x)

\* variant: the enumeration is used in the order readdir returned it
Unsorted(files) == files

RECURSIVE Sort(_)
Sort(files) ==
    IF files = <<>> THEN <<>> ELSE InsertSorted(Sort(Tail(files)), Head(files))

\* some listing of a set of names as a sequence
RECURSIVE Listing(_)
Listing(S) ==
    IF S = {} THEN <<>>
    ELSE LET x == CHOOSE y \in S : \A z \in S : z = y \/ StrLess(y, z)
         IN  <<x>> \o Listing(S \ {x})

Reverse(seq) == [i \in 1..Len(seq) |-> seq[Len(seq) + 1 - i]]

\* the orders a directory enumeration may come in: some listing of the
\* entries, or that listing reversed
EnumerationOrders == BOOLEAN

\* fs.readdir(dirPath): the entries in the order the file system enumerates them
Readdir(dirPath, order) ==
    IF order THEN Reverse(Listing(Entries(dirPath))) ELSE Listing(Entries(dirPath))

\* path.relative(dirPath, fullPath): the names of fullPath below dirPath
RelativePath(dirPath, fullPath) ==
    Join(SubSeq(fullPath, Len(dirPath) + 1, Len(fullPath)), "/")

\* what a scan has produced: the text, the file-system calls, the entries listed
ScanResult(content, log, entries) ==
    [content |-> content, log |-> log, listed |-> entries]

ScanCat(a, b) ==
    ScanResult(a.content \o b.content, a.log \o b.log, a.listed \o b.listed)

RECURSIVE ScanDirectory(_, _, _, _)
RECURSIVE ScanLoop(_, _, _, _, _)

\* the body of `for (const file of files.sort())`, from the first of `files`
\* on; a failing call leaves the loop for the catch clause of scanDirectory
ScanLoop(dirPath, files, ignorePatterns, level, order) ==
    IF files = <<>> THEN ScanResult(<<>>, <<>>, <<>>)
    ELSE
    LET file         == Head(files)
        fullPath     == PathJoin(dirPath, file)
        relativePath == RelativePath(dirPath, fullPath)
        statCall     == ScanResult(<<>>, <<<<"stat", fullPath>>>>, <<>>)
    IN
    IF Fails("stat", fullPath) THEN statCall
    ELSE IF IsIgnoredCall(relativePath, ignorePatterns) THEN
        ScanCat(statCall, ScanLoop(dirPath, Tail(files), ignorePatterns, level, order))
    ELSE IF IsDirectory(fullPath) THEN
        ScanCat(ScanResult(<<Line(level, "- dir ", file)>>,
                           <<<<"stat", fullPath>>>>, <<fullPath>>),
          ScanCat(ScanDirectory(fullPath, ignorePatterns, level + 1, order),
                  ScanLoop(dirPath, Tail(files), ignorePatterns, level, order)))
    ELSE
        LET ext      == ExtName(file)
            fileLine == ScanResult(<<Line(level, "- file ", file)>>,
                                   <<<<"stat", fullPath>>>>, <<fullPath>>)
        IN  IF ext \in ReadExtensions THEN
                LET readCall == ScanResult(<<>>, <<<<"readFile", fullPath>>>>, <<>>) IN
                IF Fails("readFile", fullPath) THEN ScanCat(fileLine, readCall)
                ELSE ScanCat(fileLine,
                       ScanCat(ScanResult(
                                 FormatAnalysis(AnalyzeFileContent(FileText(fullPath), ext), level),
                                 <<<<"readFile", fullPath>>>>, <<>>),
                               ScanLoop(dirPath, Tail(files), ignorePatterns, level, order)))
            ELSE ScanCat(fileLine,
                         ScanLoop(dirPath, Tail(files), ignorePatterns, level, order))

\* scanDirectory(dirPath, ignorePatterns, level): never raises
ScanDirectory(dirPath, ignorePatterns, level, order) ==
    LET readdirCall == ScanResult(<<>>, <<<<"readdir", dirPath>>>>, <<>>) IN
    IF Fails("readdir", dirPath) THEN readdirCall
    ELSE ScanCat(readdirCall,
                 ScanLoop(dirPath, Sort(Readdir(dirPath, order)), ignorePatterns, level, order))

----------------------------------------------------------------------------
(* analyzeWorkspace *)

\* "# Workspace Structure\n\nFiles listed in .gitignore will be excluded.\n\n"
HeadingLines ==
    << Line(0, "# Workspace Structure", <<>>), Line(0, "", <<>>),
       Line(0, "Files listed in .gitignore will be excluded.", <<>>), Line(0, "", <<>>) >>

\* the Project Info block of the try statement around package.json: the text
\* added before the statement completes or an exception leaves it
ProjectInfo ==
    LET packageJsonPath == PathJoin(RootPath, PackageJsonName)
        access == <<<<"access", packageJsonPath>>>>
        read   == <<<<"readFile", packageJsonPath>>>>
    IN  IF ~Exists(packageJsonPath) THEN [text |-> <<>>, log |-> access]
        ELSE IF Fails("readFile", packageJsonPath) THEN [text |-> <<>>, log |-> access \o read]
        ELSE IF packageJson = "invalid" THEN [text |-> <<>>, log |-> access \o read]
        ELSE IF packageJson = "null" THEN
             \* the heading is appended, then reading `.name` of null throws
             [text |-> <<Line(0, "## Project Info", <<>>)>>, log |-> access \o read]
        ELSE [text |-> << Line(0, "## Project Info", <<>>),
                          Line(0, "- Name: ", PackageJsonName),
                          Line(0, "- Version: ", PackageJsonName),
                          Line(0, "- Description: ", PackageJsonName),
                          Line(0, "", <<>>) >>,
              log  |-> access \o read]

\* variant: the package manifest is looked for first
configFilesManifestFirst == <<PackageJsonName, RequirementsTxt, PyprojectToml>>

configFiles == <<RequirementsTxt, PyprojectToml, PackageJsonName>>

\* one turn of `for (const configFile of configFiles)`; "fence" is the line
\* of three backticks that opens and closes the block
ConfigBlock(configFile) ==
    LET configFilePath == PathJoin(RootPath, configFile)
        access == <<<<"access", configFilePath>>>>
        read   == <<<<"readFile", configFilePath>>>>
    IN  IF ~Exists(configFilePath) THEN [text |-> <<>>, log |-> access]
        ELSE IF Fails("readFile", configFilePath) THEN [text |-> <<>>, log |-> access \o read]
        ELSE [text |-> << Line(0, "### ", configFile), Line(0, "fence", <<>>),
                          Line(0, "content of ", configFile), Line(0, "fence", <<>>),
                          Line(0, "", <<>>) >>,
              log  |-> access \o read]

RECURSIVE ConfigBlocks(_)
ConfigBlocks(files) ==
    IF files = <<>> THEN [text |-> <<>>, log |-> <<>>]
    ELSE LET b == ConfigBlock(Head(files))
             r == ConfigBlocks(Tail(files))
         IN  [text |-> b.text \o r.text, log |-> b.log \o r.log]

\* the body of analyzeWorkspace from `let markdown = ...` on, `markdown`
\* being the text the variable starts with
AssembleWorkspace(markdown, order) ==
    LET loaded  == LoadGitignorePatterns
        info    == ProjectInfo
        configs == ConfigBlocks(configFiles)
        scan    == ScanDirectory(RootPath, loaded.patterns, 0, order)
    IN  [ markdown |-> markdown
                       \o info.text
                       \o <<Line(0, "## Configuration Files", <<>>), Line(0, "", <<>>)>>
                       \o configs.text
                       \o <<Line(0, "## File Structure", <<>>), Line(0, "", <<>>)>>
                       \o scan.content,
          log      |-> loaded.log \o info.log \o configs.log \o scan.log,
          listed   |-> scan.listed,
          rules    |-> loaded.patterns ]

\* variant: `markdown` is kept between calls, each run appending to the
\* text of the run before it
AnalyzeWorkspaceKeepingText(order) == AssembleWorkspace(document \o HeadingLines, order)

\* analyzeWorkspace(rootPath): the markdown, with the calls made, the entries
\* listed and the rule set loaded on the way
AnalyzeWorkspace(order) == AssembleWorkspace(HeadingLines, order)

----------------------------------------------------------------------------
(* generateStructure *)

\* path.join(root, outputDir, fileName) and its path.dirname
finalOutputPath == outputDir \o <<fileName>>
outputDirPath   == Parent(finalOutputPath)

\* the state of the file system a run starts from
Snapshot ==
    [tree |-> tree, gitignore |-> gitignore, packageJson |-> packageJson, failing |-> failing]

\* what every run records of the run before it
RunHistory ==
    /\ snapshot' = <<Snapshot>>
    /\ repeats' = (snapshot = <<Snapshot>>)
    /\ previous' = document

\* variant: the error is shown but the `return` after it is missing, and the
\* analysis goes on in the current directory
GenerateNoWorkspaceNoReturn ==
    /\ ~folders
    /\ shown' = <<"error: Please open a folder first">>
    /\ \E order \in EnumerationOrders :
         LET a == AnalyzeWorkspace(order) IN
         /\ document' = a.markdown
         /\ listed' = a.listed
         /\ rules' = a.rules
         /\ reversed' = order
         /\ ioLog' = a.log
    /\ written' = <<>>
    /\ RunHistory
    /\ UNCHANGED <<fsVars, igVars, logVars, anVars>>

\* getWorkspaceFolder finds no folder: the error is shown and the run ends
GenerateNoWorkspace ==
    /\ ~folders
    /\ shown' = <<"error: Please open a folder first">>
    /\ document' = <<>>
    /\ written' = <<>>
    /\ ioLog' = <<>>
    /\ listed' = <<>>
    /\ rules' = <<>>
    /\ RunHistory
    /\ UNCHANGED <<fsVars, igVars, logVars, anVars, reversed>>

\* the try block of generateStructure, mkdir or writeFile failing
GenerateWriteFails ==
    /\ folders
    /\ Fails("mkdir", outputDirPath) \/ Fails("writeFile", finalOutputPath)
    /\ \E order \in EnumerationOrders :
         LET a == AnalyzeWorkspace(order) IN
         /\ document' = a.markdown
         /\ listed' = a.listed
         /\ rules' = a.rules
         /\ reversed' = order
         /\ ioLog' = a.log \o <<<<"mkdir", outputDirPath>>>>
                     \o (IF Fails("mkdir", outputDirPath) THEN <<>>
                         ELSE <<<<"writeFile", finalOutputPath>>>>)
    /\ written' = <<>>
    /\ shown' = <<"error: Failed to generate workspace structure">>
    /\ RunHistory
    /\ UNCHANGED <<fsVars, igVars, logVars, anVars>>

\* the try block of generateStructure running to its end
GenerateWrites ==
    /\ folders
    /\ ~Fails("mkdir", outputDirPath)
    /\ ~Fails("writeFile", finalOutputPath)
    /\ \E order \in EnumerationOrders :
         LET a == AnalyzeWorkspace(order) IN
         /\ document' = a.markdown
         /\ listed' = a.listed
         /\ rules' = a.rules
         /\ reversed' = order
         /\ written' = a.markdown
         /\ ioLog' = a.log \o <<<<"mkdir", outputDirPath>>, <<"writeFile", finalOutputPath>>>>
    /\ tree' = tree \cup {finalOutputPath}
    /\ shown' = <<"info: Workspace structure has been generated successfully!">>
    /\ RunHistory
    /\ UNCHANGED <<folders, gitignore, packageJson, failing, igVars, logVars, anVars>>

GenerateStructure == GenerateNoWorkspace \/ GenerateWriteFails \/ GenerateWrites

----------------------------------------------------------------------------
(* The file systems a run may start from *)

\* the paths that can be added to the tree t with names of N: a new entry of
\* the root or of a directory of t
Extensions(t, N) ==
    ( { PathJoin(RootPath, n) : n \in N }
      \cup { PathJoin(d, n) : d \in { p \in t : BaseName(p) \in DirNames }, n \in N } ) \ t

RECURSIVE TreesUpTo(_, _)
TreesUpTo(n, N) ==
    IF n = 0 THEN {{}}
    ELSE LET smaller == TreesUpTo(n - 1, N)
         IN  smaller \cup UNION { { t \cup {p} : p \in Extensions(t, N) } : t \in smaller }

\* a project tree of at most MaxEntries entries, with or without a .gitignore
\* in the root beside them; or a root that holds configuration files beside
\* at most one source file
ProjectTrees ==
    LET bare == TreesUpTo(MaxEntries, DirNames \cup FileNames)
    IN  bare \cup { t \cup {<<GitignoreName>>} : t \in bare }
ConfigTrees  ==
    { { <<n>> : n \in C } \cup S :
        C \in (SUBSET RootFileNames) \ {{}}, S \in {{}, {<<SourceTs>>}} }

Trees == ProjectTrees \cup ConfigTrees

\* the calls that can fail on the tree t
FailureCandidates(t) ==
    { <<"readdir", RootPath>>, <<"mkdir", outputDirPath>>, <<"writeFile", finalOutputPath>> }
    \cup { <<"stat", p>> : p \in t }
    \cup { <<"readdir", p>> : p \in { q \in t : BaseName(q) \in DirNames } }
    \cup { <<"readFile", p>> :
             p \in { q \in t : \/ ExtName(BaseName(q)) \in ReadExtensions
                               \/ (Len(q) = 1 /\ q[1] \in RootFileNames \cup {GitignoreName}) } }

NoRun ==
    /\ snapshot = <<>>
    /\ document = <<>>
    /\ written = <<>>
    /\ ioLog = <<>>
    /\ shown = <<>>
    /\ listed = <<>>
    /\ rules = <<>>
    /\ reversed = FALSE
    /\ repeats = FALSE
    /\ previous = <<>>

NoIgnoreCall ==
    /\ igPath = <<>>
    /\ igRules = <<>>
    /\ igResult = "none"

\* the logger as its constructor leaves it, and no log file
NewLogger ==
    /\ isLogging = FALSE
    /\ recordedData = <<>>
    /\ hasUnsavedChanges = FALSE
    /\ lastSaveTimeout = "undefined"
    /\ orphanTimers = 0
    /\ appending = <<>>
    /\ starting = FALSE
    /\ disposed = FALSE
    /\ logShown = <<>>
    /\ pushed = {}
    /\ appendFailed = FALSE
    /\ toggles = 0

NoLogger == NewLogger /\ logFile = <<>>

NoAnalysis ==
    /\ anStage = "none"
    /\ anContent = <<>>
    /\ anExt = <<>>
    /\ anAnalysis = <<>>
    /\ anLevel = 0
    /\ anLines = <<>>

Init ==
    /\ folders \in BOOLEAN
    /\ tree \in Trees
    /\ gitignore \in (IF <<GitignoreName>> \in tree THEN GitignoreTexts ELSE {<<>>})
    /\ packageJson \in (IF <<PackageJsonName>> \in tree
                        THEN {"invalid", "null", "object"} ELSE {"absent"})
    /\ failing \in {{}} \cup (IF folders THEN { {c} : c \in FailureCandidates(tree) } ELSE {})
    /\ NoRun
    /\ NoIgnoreCall
    /\ NoLogger
    /\ NoAnalysis

Next == GenerateStructure

Spec == Init /\ [][Next]_vars

----------------------------------------------------------------------------
(* isIgnored called on its own *)

PatternAlphabet == {"a", "*", "?", ".", "/"}
PathAlphabet    == {"a", ".", "/"}

\* every string of at most n characters of A
StringsUpTo(n, A) == UNION { [1..k -> A] : k \in 0..n }

\* the rule sets given: every single pattern, and a few pairs
PairedPatterns == { <<"a">>, <<".", "*">>, <<"*", "/", "a">> }
IgnoreRuleSets ==
    {<<>>}
    \cup { <<p>> : p \in StringsUpTo(MaxPatLen, PatternAlphabet) }
    \cup { <<p, q>> : p \in PairedPatterns, q \in PairedPatterns }

NoFileSystem ==
    /\ folders = FALSE
    /\ tree = {}
    /\ gitignore = <<>>
    /\ packageJson = "absent"
    /\ failing = {}

InitIgnore ==
    /\ NoFileSystem
    /\ NoRun
    /\ igPath \in StringsUpTo(MaxPathLen, PathAlphabet) \ {<<>>}
    /\ igRules \in IgnoreRuleSets
    /\ igResult = "none"
    /\ NoLogger
    /\ NoAnalysis

CallIsIgnored ==
    /\ igResult = "none"
    /\ igResult' = IF IsIgnored(igPath, igRules) THEN "ignored" ELSE "kept"
    /\ UNCHANGED <<fsVars, runVars, igPath, igRules, logVars, anVars>>

NextIgnore == CallIsIgnored

SpecIgnore == InitIgnore /\ [][NextIgnore]_vars

----------------------------------------------------------------------------
(* TerminalLogger *)

MaxEvents  == 2      \* shell-execution events recorded
MaxToggles == 3      \* toggleLogging commands given
MAX_LINES  == 1000   \* TerminalLogger.MAX_LINES

\* the lines of the entry the n-th execution event pushes: the command or
\* exit-code line, with the command's output on a second line when there is one
EventEntry(n, withOutput) ==
    IF withOutput THEN << <<"event", n>>, <<"output", n>> >> ELSE << <<"event", n>> >>

EventEntries == { EventEntry(n, b) : n \in 1..MaxEvents, b \in BOOLEAN }

\* a line some earlier session left in the log file
OldLine == <<"old", 0>>

\* recordedData.join("\n") + "\n": the lines the append writes
RECURSIVE JoinEntries(_)
JoinEntries(entries) ==
    IF entries = <<>> THEN <<>> ELSE Head(entries) \o JoinEntries(Tail(entries))

\* content.split("\n").filter((entry) => entry.trim()), then slice(-MAX_LINES):
\* every line of the file becomes an entry of its own
LoadEntries(lines) ==
    LET entries == [i \in 1..Len(lines) |-> <<lines[i]>>]
    IN  IF Len(entries) > MAX_LINES
        THEN SubSeq(entries, Len(entries) - MAX_LINES + 1, Len(entries))
        ELSE entries

\* the end of the save callback: `this.lastSaveTimeout = undefined`; a timer
\* set while the callback was waiting stays pending with its handle lost
ForgetTimeout ==
    /\ lastSaveTimeout' = "undefined"
    /\ orphanTimers' = orphanTimers + (IF lastSaveTimeout = "pending" THEN 1 ELSE 0)

\* toggleLogging -> startLogging without a workspace folder
StartLoggingNoWorkspace ==
    /\ ~disposed /\ ~isLogging /\ ~starting /\ toggles < MaxToggles
    /\ ~folders
    /\ toggles' = toggles + 1
    /\ logShown' = <<"error: No workspace opened">>
    /\ UNCHANGED <<fsVars, runVars, igVars, anVars, isLogging, recordedData, hasUnsavedChanges,
                   lastSaveTimeout, orphanTimers, appending, starting, disposed, logFile,
                   pushed, appendFailed>>

\* toggleLogging -> startLogging up to `await fs.readFile(logPath)`
StartLogging ==
    /\ ~disposed /\ ~isLogging /\ ~starting /\ toggles < MaxToggles
    /\ folders
    /\ toggles' = toggles + 1
    /\ starting' = TRUE
    /\ UNCHANGED <<fsVars, runVars, igVars, anVars, isLogging, recordedData, hasUnsavedChanges,
                   lastSaveTimeout, orphanTimers, appending, disposed, logFile, logShown,
                   pushed, appendFailed>>

\* startLogging from the readFile result on: the file's lines replace
\* recordedData, or nothing does when the read is rejected
ReadLogResolves ==
    /\ starting
    /\ \E readable \in BOOLEAN :
         recordedData' = IF readable THEN LoadEntries(logFile) ELSE <<>>
    /\ isLogging' = TRUE
    /\ starting' = FALSE
    /\ logShown' = <<"info: Started recording terminal commands">>
    /\ UNCHANGED <<fsVars, runVars, igVars, anVars, hasUnsavedChanges, lastSaveTimeout, orphanTimers,
                   appending, disposed, logFile, pushed, appendFailed, toggles>>

\* an execution start or end event while logging is on: the entry is pushed
\* and scheduleLogSave replaces the pending timer by a new one
RecordEvent ==
    /\ ~disposed /\ isLogging
    /\ Cardinality({ e[1][2] : e \in pushed }) < MaxEvents
    /\ \E withOutput \in BOOLEAN :
         LET logEntry == EventEntry(Cardinality({ e[1][2] : e \in pushed }) + 1, withOutput) IN
         /\ recordedData' = Append(recordedData, logEntry)
         /\ pushed' = pushed \cup {logEntry}
    /\ hasUnsavedChanges' = TRUE
    /\ lastSaveTimeout' = "pending"
    /\ UNCHANGED <<fsVars, runVars, igVars, anVars, isLogging, orphanTimers, appending, starting,
                   disposed, logFile, logShown, appendFailed, toggles>>

\* toggleLogging -> stopLogging
StopLogging ==
    /\ ~disposed /\ isLogging /\ toggles < MaxToggles
    /\ toggles' = toggles + 1
    /\ lastSaveTimeout' = IF hasUnsavedChanges THEN "pending" ELSE lastSaveTimeout
    /\ isLogging' = FALSE
    /\ logShown' = <<"info: Stopped recording terminal commands">>
    /\ UNCHANGED <<fsVars, runVars, igVars, anVars, recordedData, hasUnsavedChanges, orphanTimers,
                   appending, starting, disposed, logFile, pushed, appendFailed>>

\* dispose(): stopLogging, then clearTimeout on whatever lastSaveTimeout holds
Dispose ==
    /\ ~disposed
    /\ disposed' = TRUE
    /\ isLogging' = FALSE
    /\ lastSaveTimeout' = IF hasUnsavedChanges \/ lastSaveTimeout # "undefined"
                          THEN "spent" ELSE "undefined"
    /\ logShown' = <<"info: Stopped recording terminal commands">>
    /\ UNCHANGED <<fsVars, runVars, igVars, anVars, recordedData, hasUnsavedChanges, orphanTimers,
                   appending, starting, logFile, pushed, appendFailed, toggles>>

\* the setTimeout callback up to `await fs.appendFile`, or to its end when
\* there is nothing to save
SaveCallback(tracked) ==
    IF hasUnsavedChanges /\ recordedData # <<>> /\ folders
    THEN /\ appending' = Append(appending, JoinEntries(recordedData))
         /\ lastSaveTimeout' = IF tracked THEN "spent" ELSE lastSaveTimeout
         /\ orphanTimers' = IF tracked THEN orphanTimers ELSE orphanTimers - 1
    ELSE /\ appending' = appending
         /\ lastSaveTimeout' = "undefined"
         /\ orphanTimers' = IF tracked THEN orphanTimers
                            ELSE orphanTimers - 1 + (IF lastSaveTimeout = "pending" THEN 1 ELSE 0)

\* the timer lastSaveTimeout refers to fires
SaveTimeoutFires ==
    /\ lastSaveTimeout = "pending"
    /\ SaveCallback(TRUE)
    /\ UNCHANGED <<fsVars, runVars, igVars, anVars, isLogging, recordedData, hasUnsavedChanges,
                   starting, disposed, logFile, logShown, pushed, appendFailed, toggles>>

\* a timer whose handle was lost fires
OrphanTimeoutFires ==
    /\ orphanTimers > 0
    /\ SaveCallback(FALSE)
    /\ UNCHANGED <<fsVars, runVars, igVars, anVars, isLogging, recordedData, hasUnsavedChanges,
                   starting, disposed, logFile, logShown, pushed, appendFailed, toggles>>

Without(seq, i) == SubSeq(seq, 1, i - 1) \o SubSeq(seq, i + 1, Len(seq))

\* an fs.appendFile resolves: the callback clears recordedData, whatever was
\* pushed meanwhile included
AppendFileResolves ==
    /\ \E i \in 1..Len(appending) :
         /\ logFile' = logFile \o appending[i]
         /\ appending' = Without(appending, i)
    /\ recordedData' = <<>>
    /\ hasUnsavedChanges' = FALSE
    /\ ForgetTimeout
    /\ UNCHANGED <<fsVars, runVars, igVars, anVars, isLogging, starting, disposed, logShown,
                   pushed, appendFailed, toggles>>

\* an fs.appendFile is rejected: the error is shown, recordedData is kept
AppendFileRejects ==
    /\ ~appendFailed
    /\ \E i \in 1..Len(appending) : appending' = Without(appending, i)
    /\ appendFailed' = TRUE
    /\ logShown' = <<"error: Failed to save log file">>
    /\ ForgetTimeout
    /\ UNCHANGED <<fsVars, runVars, igVars, anVars, isLogging, recordedData, hasUnsavedChanges,
                   starting, disposed, logFile, pushed, toggles>>

\* the logger just constructed, with or without a log file of an earlier session
InitLogger ==
    /\ folders \in BOOLEAN
    /\ tree = {}
    /\ gitignore = <<>>
    /\ packageJson = "absent"
    /\ failing = {}
    /\ NoRun
    /\ NoIgnoreCall
    /\ NewLogger
    /\ logFile \in {<<>>, <<OldLine>>}
    /\ NoAnalysis

NextLogger ==
    \/ StartLoggingNoWorkspace
    \/ StartLogging
    \/ ReadLogResolves
    \/ RecordEvent
    \/ StopLogging
    \/ Dispose
    \/ SaveTimeoutFires
    \/ OrphanTimeoutFires
    \/ AppendFileResolves
    \/ AppendFileRejects

\* a timer that is not cleared fires, and a file-system call in flight ends
SpecLogger ==
    /\ InitLogger
    /\ [][NextLogger]_vars
    /\ WF_vars(ReadLogResolves)
    /\ WF_vars(SaveTimeoutFires)
    /\ WF_vars(OrphanTimeoutFires)
    /\ WF_vars(AppendFileResolves \/ AppendFileRejects)

----------------------------------------------------------------------------
(* analyzeFileContent and formatAnalysis called on their own *)

MaxStatements == 3   \* statements of a source text
MaxLevel      == 2   \* depth of the file's line in the scan

NameA == <<"a">>
NameB == <<"b">>

\* the statements a source text is drawn from
PythonStatements ==
    { [shape |-> "import", module |-> <<>>,  names |-> <<NameA>>,        alias |-> <<>>],
      [shape |-> "import", module |-> <<>>,  names |-> <<NameB, NameA>>, alias |-> <<>>],
      [shape |-> "import", module |-> NameB, names |-> <<NameA>>,        alias |-> NameB],
      [shape |-> "def",    name |-> NameA],
      [shape |-> "def",    name |-> NameB],
      [shape |-> "method", name |-> NameA],
      [shape |-> "method", name |-> NameB],
      [shape |-> "class",  name |-> NameA] }
ScriptStatements == { [shape |-> "export function", name |-> NameA] }
Statements == PythonStatements \cup ScriptStatements

ExtMd == <<".", "m", "d">>
AnalyzedExtensions == {ExtPy, ExtTs, ExtVue, ExtMd}

\* a field of a FileAnalysis handed to formatAnalysis
FieldValues == { <<>>, <<NameA>>, <<NameB, NameA>> }
FileAnalyses ==
    [ imports : FieldValues, functions : FieldValues, classes : FieldValues,
      exports : FieldValues, methods : FieldValues, components : FieldValues ]

\* analyzeFileContent is about to be called on a text and an extension
InitContent ==
    /\ anStage = "text"
    /\ anContent \in StringsUpTo(MaxStatements, Statements)
    /\ anExt \in AnalyzedExtensions
    /\ anAnalysis = <<>>

\* formatAnalysis is about to be called on a FileAnalysis
InitFileAnalysis ==
    /\ anStage = "analysis"
    /\ anContent = <<>>
    /\ anExt = <<>>
    /\ anAnalysis \in FileAnalyses

InitAnalyze ==
    /\ NoFileSystem
    /\ NoRun
    /\ NoIgnoreCall
    /\ NoLogger
    /\ InitContent \/ InitFileAnalysis
    /\ anLevel \in 0..MaxLevel
    /\ anLines = <<>>

CallAnalyzeFileContent ==
    /\ anStage = "text"
    /\ anAnalysis' = AnalyzeFileContent(anContent, anExt)
    /\ anStage' = "analysis"
    /\ UNCHANGED <<fsVars, runVars, igVars, logVars, anContent, anExt, anLevel, anLines>>

CallFormatAnalysis ==
    /\ anStage = "analysis"
    /\ anLines' = FormatAnalysis(anAnalysis, anLevel)
    /\ anStage' = "formatted"
    /\ UNCHANGED <<fsVars, runVars, igVars, logVars, anContent, anExt, anLevel, anAnalysis>>

NextAnalyze == CallAnalyzeFileContent \/ CallFormatAnalysis

SpecAnalyze == InitAnalyze /\ [][NextAnalyze]_vars

----------------------------------------------------------------------------
(* Properties of isIgnored: the anchor forms, stated on the path itself *)

\* one leading and one trailing slash removed
StripSlashes(pattern) ==
    LET p1 == IF pattern # <<>> /\ Head(pattern) = "/" THEN Tail(pattern) ELSE pattern
    IN  IF p1 # <<>> /\ p1[Len(p1)] = "/" THEN SubSeq(p1, 1, Len(p1) - 1) ELSE p1

\* the translation of the stripped pattern matches the whole of the text
TranslatedMatch(pattern, text) ==
    RegexMatch(ReplaceQuestion(ReplaceStar(ReplaceDoubleStar(EscapeDots(StripSlashes(pattern))))),
               text)

\* the four anchor forms, by cutting the path at its separators
MatchesWhole(p, path)  == TranslatedMatch(p, path)
MatchesPrefix(p, path) ==
    \E k \in 1..Len(path) : path[k] = "/" /\ TranslatedMatch(p, SubSeq(path, 1, k - 1))
MatchesSuffix(p, path) ==
    \E k \in 1..Len(path) : path[k] = "/" /\ TranslatedMatch(p, SubSeq(path, k + 1, Len(path)))
MatchesInside(p, path) ==
    \E j \in 1..Len(path), k \in 1..Len(path) :
        j < k /\ path[j] = "/" /\ path[k] = "/" /\ TranslatedMatch(p, SubSeq(path, j + 1, k - 1))

AnchoredMatch(pattern, path) ==
    MatchesWhole(pattern, path) \/ MatchesPrefix(pattern, path)
    \/ MatchesSuffix(pattern, path) \/ MatchesInside(pattern, path)

\* C4: isIgnored(P, R) is true if and only if some pattern of R, one leading
\* and one trailing slash stripped, matches P in one of the four anchor forms:
\* the whole path, a leading directory prefix, a suffix after a separator, or
\* a directory component inside the path.  A pattern matches a text when its
\* translation matches the whole of the text.
C4_AnchorForms ==
    igResult # "none" =>
        ((igResult = "ignored") <=> \E i \in 1..Len(igRules) : AnchoredMatch(igRules[i], igPath))

\* a path was ignored for a pattern that matches a component inside it and
\* in no other form
C4_Witness ==
    /\ igResult = "ignored"
    /\ Len(igRules) = 1
    /\ MatchesInside(igRules[1], igPath)
    /\ ~MatchesWhole(igRules[1], igPath)
    /\ ~MatchesPrefix(igRules[1], igPath)
    /\ ~MatchesSuffix(igRules[1], igPath)

\* the meaning of a pattern stated on the text itself: `**` is any run of
\* characters, separators included, `*` any run without a separator, `?` one
\* character that is no separator, every other character itself
RECURSIVE GlobMatch(_, _)
GlobMatch(pat, s) ==
    IF pat = <<>> THEN s = <<>>
    ELSE IF Len(pat) >= 2 /\ pat[1] = "*" /\ pat[2] = "*" THEN
        \E k \in 0..Len(s) : GlobMatch(SubSeq(pat, 3, Len(pat)), SubSeq(s, k + 1, Len(s)))
    ELSE IF Head(pat) = "*" THEN
        GlobMatch(Tail(pat), s) \/ (s # <<>> /\ Head(s) # "/" /\ GlobMatch(pat, Tail(s)))
    ELSE IF Head(pat) = "?" THEN
        s # <<>> /\ Head(s) # "/" /\ GlobMatch(Tail(pat), Tail(s))
    ELSE s # <<>> /\ Head(s) = Head(pat) /\ GlobMatch(Tail(pat), Tail(s))

\* the four anchor forms under that meaning
GlobAnchoredMatch(pattern, path) ==
    LET p == StripSlashes(pattern) IN
    \/ GlobMatch(p, path)
    \/ \E k \in 1..Len(path) : path[k] = "/" /\ GlobMatch(p, SubSeq(path, 1, k - 1))
    \/ \E k \in 1..Len(path) : path[k] = "/" /\ GlobMatch(p, SubSeq(path, k + 1, Len(path)))
    \/ \E j \in 1..Len(path), k \in 1..Len(path) :
           j < k /\ path[j] = "/" /\ path[k] = "/" /\ GlobMatch(p, SubSeq(path, j + 1, k - 1))

HasDoubleStar(pattern) ==
    \E i \in 1..(Len(pattern) - 1) : pattern[i] = "*" /\ pattern[i + 1] = "*"

\* C12: the translation gives `**` the meaning "any sequence, separators
\* included", `*` "any sequence without a separator" and `?` "one character
\* that is no separator": isIgnored answers as matching under that meaning
\* does, in the four anchor forms.
C12_WildcardMeaning ==
    igResult # "none" =>
        ((igResult = "ignored")
            <=> \E i \in 1..Len(igRules) : GlobAnchoredMatch(igRules[i], igPath))

\* the same for the rule sets none of whose patterns holds `**`
C12_SingleWildcards ==
    (igResult # "none" /\ \A i \in 1..Len(igRules) : ~HasDoubleStar(igRules[i])) =>
        ((igResult = "ignored")
            <=> \E i \in 1..Len(igRules) : GlobAnchoredMatch(igRules[i], igPath))

----------------------------------------------------------------------------
(* Properties of a generateStructure run *)

Ran  == snapshot # <<>>
Snap == snapshot[1]

\* a < b in lexicographic order: b continues a, or the first character that
\* differs is smaller in a
LexLess(a, b) ==
    \E k \in 1..(Len(b)) :
        /\ k <= Len(a) + 1
        /\ SubSeq(a, 1, k - 1) = SubSeq(b, 1, k - 1)
        /\ (k = Len(a) + 1 \/ CharCode(a[k]) < CharCode(b[k]))

IsStrictPrefix(p, q) == Len(p) < Len(q) /\ SubSeq(q, 1, Len(p)) = p

Called(op, path) == <<op, path>> \in Range(ioLog)

IsEntryLine(line) == line.mark \in {"- dir ", "- file "}

\* the names the default exclusions name: the literal ones, and every name
\* that ends as a `*.ext` default does
LiteralDefaults ==
    { defaultPatterns[i] : i \in { j \in 1..Len(defaultPatterns) : Head(defaultPatterns[j]) # "*" } }
SuffixDefaults ==
    { Tail(defaultPatterns[i]) : i \in { j \in 1..Len(defaultPatterns) : Head(defaultPatterns[j]) = "*" } }
DefaultNamed(name) ==
    name \in LiteralDefaults \/ \E suffix \in SuffixDefaults : EndsWith(name, suffix)

HasDefaultNamed(path) == \E j \in 1..Len(path) : DefaultNamed(path[j])

\* C1: whatever rule set loadGitignorePatterns returned, the scan lists no
\* entry named by a default exclusion at any depth, and issues no call on
\* anything beneath such an entry.
C1_DefaultsExcluded ==
    Ran =>
        /\ \A i \in 1..Len(listed) : ~HasDefaultNamed(listed[i])
        /\ \A i \in 1..Len(document) :
               IsEntryLine(document[i]) => ~DefaultNamed(document[i].name)
        /\ \A k \in 1..Len(ioLog) :
               /\ ioLog[k][1] \in {"readdir", "readFile"} => ~HasDefaultNamed(ioLog[k][2])
               /\ ioLog[k][1] = "stat" => ~HasDefaultNamed(Parent(ioLog[k][2]))

\* a run met a default-named directory that has an entry beneath it, in a
\* root whose .gitignore does not list it
C1_Witness ==
    /\ Ran
    /\ folders
    /\ <<GitignoreName>> \in Snap.tree
    /\ \E p \in Snap.tree :
          /\ DefaultNamed(BaseName(p))
          /\ Called("stat", p)
          /\ \E q \in Snap.tree : IsStrictPrefix(p, q)

\* C2: every entry whose path relative to the root matches a pattern line of
\* the root .gitignore (blank, comment and negation lines apart) is absent
\* from the File Structure section.
C2_GitignoreExcludes ==
    (Ran /\ folders /\ <<GitignoreName>> \in Snap.tree
         /\ ~Fails("readFile", <<GitignoreName>>)) =>
        \A i \in 1..Len(listed) :
            \A pattern \in Range(SelectSeq([k \in 1..Len(Split(Snap.gitignore, "\n")) |->
                                               Trim(Split(Snap.gitignore, "\n")[k])], KeepsLine)) :
                ~AnchoredMatch(pattern, Join(listed[i], "/"))

\* C3: without a .gitignore the rule set holds the catch-all dotfile pattern
\* and no entry whose name begins with a dot is listed; with a .gitignore the
\* catch-all is in the rule set only if the file lists it itself.
C3_DotfileRule ==
    (Ran /\ folders) =>
        IF <<GitignoreName>> \in Snap.tree
        THEN dotfilePattern \in Range(rules) =>
                 \E line \in Range(Split(Snap.gitignore, "\n")) : Trim(line) = dotfilePattern
        ELSE /\ dotfilePattern \in Range(rules)
             /\ \A i \in 1..Len(listed) : \A j \in 1..Len(listed[i]) : Head(listed[i][j]) # "."
             /\ \A i \in 1..Len(document) :
                    IsEntryLine(document[i]) => Head(document[i].name) # "."

\* a run without a .gitignore met an entry whose name begins with a dot and
\* that no default exclusion names
C3_Witness ==
    /\ Ran
    /\ folders
    /\ <<GitignoreName>> \notin Snap.tree
    /\ \E p \in Snap.tree :
          Head(BaseName(p)) = "." /\ ~DefaultNamed(BaseName(p)) /\ Called("stat", p)

\* C5: in every directory the listed entries come in lexicographic order of
\* name, whatever order the enumeration returned; the lines of a directory's
\* subtree come directly after its own line and before the next sibling's.
C5_SortedEmission ==
    Ran =>
        LET entryLines == SelectSeq(document, IsEntryLine) IN
        /\ Len(entryLines) = Len(listed)
        /\ \A i \in 1..Len(listed) :
               /\ entryLines[i].name = BaseName(listed[i])
               /\ entryLines[i].indent = Len(listed[i]) - 1
        /\ \A i \in 1..Len(listed), j \in 1..Len(listed) :
               /\ (i < j /\ Parent(listed[i]) = Parent(listed[j]))
                      => LexLess(BaseName(listed[i]), BaseName(listed[j]))
               /\ IsStrictPrefix(listed[i], listed[j])
                      => /\ i < j
                         /\ \A k \in (i + 1)..j : IsStrictPrefix(listed[i], listed[k])

\* the enumeration came reversed, and a directory was listed with an entry
\* beneath it and a sibling after it
C5_Witness ==
    /\ Ran
    /\ reversed
    /\ \E i \in 1..Len(listed) :
          /\ i + 2 <= Len(listed)
          /\ Parent(listed[i + 1]) = listed[i]
          /\ Parent(listed[i + 2]) = Parent(listed[i])

\* C6: a run that starts from the snapshot the run before it started from
\* returns the document that run returned.
C6_Idempotent == (Ran /\ folders /\ repeats) => document = previous

\* a run repeated on an unchanged tree that lists two entries of one
\* directory, enumerated in reverse
C6_Witness ==
    /\ Ran
    /\ folders
    /\ repeats
    /\ reversed
    /\ \E i \in 1..Len(listed), j \in 1..Len(listed) :
          i # j /\ Parent(listed[i]) = Parent(listed[j])

\* C7: when reading the root directory fails, the run ends in an error shown
\* to the caller and writes no output file.
C7_UnreadableRootIsFatal ==
    (Ran /\ folders /\ Fails("readdir", RootPath)) =>
        /\ shown = <<"error: Failed to generate workspace structure">>
        /\ written = <<>>
        /\ ~Called("writeFile", finalOutputPath)

\* the entries of the scan whose stat call or content read was made and failed
FailedEntries ==
    { c[2] : c \in { d \in failing :
                       /\ d[1] \in {"stat", "readFile"}
                       /\ d \in Range(ioLog)
                       /\ d[1] = "readFile" => ExtName(BaseName(d[2])) \in ReadExtensions } }

\* C8: a failure on one entry is local: every non-ignored sibling that sorts
\* after the failing entry is still listed and, if a directory, recursed into.
C8_EntryFailureIsLocal ==
    (Ran /\ folders) =>
        \A e \in FailedEntries : \A s \in Snap.tree :
            ( /\ Len(s) = Len(e)
              /\ Parent(s) = Parent(e)
              /\ LexLess(BaseName(e), BaseName(s))
              /\ ~IsIgnored(BaseName(s), rules) )
            => /\ s \in Range(listed)
               /\ BaseName(s) \in DirNames => Called("readdir", s)

\* C9: without a workspace folder the run reports the error and ends before
\* any traversal: no file-system call is issued and nothing is written.
C9_NoWorkspaceNoTraversal ==
    (Ran /\ ~folders) =>
        /\ shown = <<"error: Please open a folder first">>
        /\ ioLog = <<>>
        /\ listed = <<>>
        /\ document = <<>>
        /\ written = <<>>
        /\ tree = Snap.tree

\* a run without a workspace folder
C9_Witness == Ran /\ ~folders /\ shown # <<>>

\* the places of the lines of one kind in the document
Positions(mark) == { i \in 1..Len(document) : document[i].mark = mark }

\* the configuration files a run finds and can read, in the order the
\* document is to show them
ReadableConfigFiles ==
    SelectSeq(<<RequirementsTxt, PyprojectToml, PackageJsonName>>,
              LAMBDA f : <<f>> \in Snap.tree /\ <<"readFile", <<f>>>> \notin Snap.failing)

\* C10: the document is the heading and disclaimer, then Project Info only if
\* package.json exists, is read and parses, then the Configuration Files
\* heading with one fenced block per existing readable file of
\* requirements.txt, pyproject.toml, package.json in that order, then the
\* File Structure heading with the scan output; a failure on package.json or
\* on one configuration file takes away only that part.
C10_SectionOrder ==
    (Ran /\ folders) =>
        \E c \in 1..Len(document), f \in 1..Len(document) :
            /\ Positions("## Configuration Files") = {c}
            /\ Positions("## File Structure") = {f}
            /\ 4 < c /\ c < f
            /\ document[1].mark = "# Workspace Structure"
            /\ document[3].mark = "Files listed in .gitignore will be excluded."
            /\ Positions("# Workspace Structure") = {1}
            /\ LET info     == Positions("## Project Info")
                   manifest == <<PackageJsonName>>
                   parses   == /\ manifest \in Snap.tree
                               /\ <<"readFile", manifest>> \notin Snap.failing
                               /\ Snap.packageJson # "invalid"
               IN  /\ info = IF parses THEN {5} ELSE {}
                   /\ c = IF parses /\ Snap.packageJson = "object" THEN 10
                          ELSE IF parses THEN 6 ELSE 5
                   /\ (parses /\ Snap.packageJson = "object") =>
                          /\ document[6].mark = "- Name: "
                          /\ document[7].mark = "- Version: "
                          /\ document[8].mark = "- Description: "
            /\ LET blocks == ReadableConfigFiles IN
               /\ f = c + 2 + 5 * Len(blocks)
               /\ \A k \in 1..Len(blocks) :
                      LET at == c + 2 + 5 * (k - 1) IN
                      /\ document[at] = Line(0, "### ", blocks[k])
                      /\ document[at + 1].mark = "fence"
                      /\ document[at + 2] = Line(0, "content of ", blocks[k])
                      /\ document[at + 3].mark = "fence"
               /\ Cardinality(Positions("### ")) = Len(blocks)
            /\ \A i \in 1..Len(document) : IsEntryLine(document[i]) => i > f + 1
            /\ Len(SelectSeq(document, IsEntryLine)) = Len(listed)

\* the three configuration files exist, the read of one of them fails, and
\* the run has assembled its document
C10_Witness ==
    /\ Ran
    /\ folders
    /\ {<<RequirementsTxt>>, <<PyprojectToml>>, <<PackageJsonName>>} \subseteq Snap.tree
    /\ \E g \in {RequirementsTxt, PyprojectToml, PackageJsonName} :
          <<"readFile", <<g>>>> \in Snap.failing
    /\ Len(ReadableConfigFiles) = 2
    /\ document # <<>>

\* the lines of the .gitignore text of the run, trimmed
TrimmedGitignoreLines ==
    { Trim(line) : line \in Range(Split(Snap.gitignore, "\n")) }

\* C13: when .gitignore exists and its read fails, the run goes on with the
\* default exclusions alone; when it is read, no blank line, `#` comment or
\* `!` negation becomes a rule, and every rule that is no default is a line
\* of the file.
C13_UnreadableGitignore ==
    (Ran /\ folders /\ <<GitignoreName>> \in Snap.tree) =>
        IF <<"readFile", <<GitignoreName>>>> \in Snap.failing
        THEN /\ rules = defaultPatterns
             /\ document # <<>>
             /\ Positions("## File Structure") # {}
             /\ shown = <<"info: Workspace structure has been generated successfully!">>
        ELSE /\ \A i \in 1..Len(rules) :
                    /\ rules[i] # <<>>
                    /\ Head(rules[i]) \notin {"#", "!"}
                    /\ i <= Len(rules) - Len(defaultPatterns) => rules[i] \in TrimmedGitignoreLines
             /\ SubSeq(rules, Len(rules) - Len(defaultPatterns) + 1, Len(rules)) = defaultPatterns
             /\ \A line \in TrimmedGitignoreLines :
                    (line # <<>> /\ Head(line) \notin {"#", "!"}) => line \in Range(rules)

\* a run whose .gitignore lists a pattern and cannot be read, in a tree that
\* holds an entry the pattern names
C13_Witness ==
    /\ Ran
    /\ folders
    /\ <<GitignoreName>> \in Snap.tree
    /\ <<"readFile", <<GitignoreName>>>> \in Snap.failing
    /\ \E line \in TrimmedGitignoreLines : line # <<>> /\ Head(line) \notin {"#", "!"}
    /\ Len(listed) > 1

ProjectInfoMarks == {"## Project Info", "- Name: ", "- Version: ", "- Description: "}

\* C17: whatever package.json is (absent, unreadable, invalid JSON, JSON that
\* is no object), the document holds the Project Info heading together with
\* its Name, Version and Description lines, or no line of that section.
C17_ProjectInfoAllOrNothing ==
    (Ran /\ folders) =>
        \/ \A i \in 1..Len(document) : document[i].mark \notin ProjectInfoMarks
        \/ \E i \in 1..Len(document) :
               /\ i + 3 <= Len(document)
               /\ document[i].mark = "## Project Info"
               /\ document[i + 1].mark = "- Name: "
               /\ document[i + 2].mark = "- Version: "
               /\ document[i + 3].mark = "- Description: "

\* the calls of the scan: the part of ioLog from the readdir of the root on
ScanCalls ==
    LET starts == { k \in 1..Len(ioLog) : ioLog[k] = <<"readdir", RootPath>> } IN
    IF starts = {} THEN <<>>
    ELSE SubSeq(ioLog, CHOOSE k \in starts : \A m \in starts : k <= m, Len(ioLog))

\* the entries of the tree none of whose path components is ignored by name
\* (IgnoredTable holds what isIgnored answers on every name and rule set)
Unignored ==
    { p \in Snap.tree : \A j \in 1..Len(p) : <<p[j], rules, TRUE>> \notin IgnoredTable }

\* C18: on a tree without I/O errors the scan ends having listed, each once,
\* exactly the entries none of whose components is ignored; it reads every
\* directory it lists once, asks the status of every entry of a directory it
\* reads once, and reads the content of a file at most once.
C18_ScanExactlyOnce ==
    (Ran /\ folders /\ Snap.failing = {}) =>
        /\ \A i \in 1..Len(listed), j \in 1..Len(listed) : i < j => listed[i] # listed[j]
        /\ Range(listed) = Unignored
        /\ \A i \in 1..Len(ScanCalls), j \in 1..Len(ScanCalls) : i < j => ScanCalls[i] # ScanCalls[j]
        /\ \A k \in 1..Len(ScanCalls) :
               /\ ScanCalls[k][1] = "readdir" =>
                      ScanCalls[k][2] \in {RootPath} \cup { p \in Unignored : BaseName(p) \in DirNames }
               /\ ScanCalls[k][1] = "readFile" =>
                      ScanCalls[k][2] \in { p \in Unignored : BaseName(p) \notin DirNames }
               /\ ScanCalls[k][1] = "stat" => ScanCalls[k][2] \in Snap.tree
        /\ \A p \in Unignored : BaseName(p) \in DirNames => <<"readdir", p>> \in Range(ScanCalls)

\* a scan without I/O errors that went into a directory, read a file there
\* and came back to list a later entry of the root
C18_Witness ==
    /\ Ran
    /\ folders
    /\ Snap.failing = {}
    /\ Len(listed) >= 3
    /\ \E i \in 1..Len(listed) :
          Len(listed[i]) = 2 /\ <<"readFile", listed[i]>> \in Range(ScanCalls)

----------------------------------------------------------------------------
(* Properties of the terminal logger *)

\* every line of the entry is in the log file
InLogFile(entry) == \A k \in 1..Len(entry) : entry[k] \in Range(logFile)

\* C11: every entry an execution event pushed while logging was on is
\* eventually in the log file, whatever events, saves in flight, toggles and
\* dispose follow, unless an append was rejected.
C11_EventuallyAppended ==
    \A e \in EventEntries : (e \in pushed) ~> (InLogFile(e) \/ appendFailed)

\* C16: no line is written to the log file twice, the lines the file held
\* when logging started included.
C16_AppendedAtMostOnce ==
    \A i \in 1..Len(logFile), j \in 1..Len(logFile) : i < j => logFile[i] # logFile[j]

----------------------------------------------------------------------------
(* Properties of analyzeFileContent and formatAnalysis *)

NoRepeats(seq) == \A i \in 1..Len(seq), j \in 1..Len(seq) : i < j => seq[i] # seq[j]

FirstAt(x, seq) == CHOOSE i \in 1..Len(seq) : seq[i] = x /\ \A j \in 1..(i - 1) : seq[j] # x

\* seq lists what found lists, each once, in the order of first occurrence
FirstSeenOrder(seq, found) ==
    /\ Range(seq) = Range(found)
    /\ NoRepeats(seq)
    /\ \A i \in 1..Len(seq), j \in 1..Len(seq) :
           i < j => FirstAt(seq[i], found) < FirstAt(seq[j], found)

\* C14: for a .py file each of imports, functions and methods holds no entry
\* twice and lists the distinct entries found in first-seen order.
C14_PythonDeduplicated ==
    (anStage \in {"analysis", "formatted"} /\ anExt = ExtPy) =>
        \A field \in {"imports", "functions", "methods"} :
            FirstSeenOrder(anAnalysis[field], PythonMatches(anContent)[field])

\* the same for functions and methods alone
C14_FunctionsAndMethods ==
    (anStage \in {"analysis", "formatted"} /\ anExt = ExtPy) =>
        \A field \in {"functions", "methods"} :
            FirstSeenOrder(anAnalysis[field], PythonMatches(anContent)[field])

FieldOrder == <<"imports", "exports", "functions", "classes", "methods", "components">>
FieldLabels ==
    <<"  - Imports:", "  - Exports:", "  - Functions:", "  - Classes:", "  - Methods:",
      "  - Components:">>

\* the lines the k-th field takes: none when empty, else a label and its entries
FieldSize(k) ==
    IF anAnalysis[FieldOrder[k]] = <<>> THEN 0 ELSE 1 + Len(anAnalysis[FieldOrder[k]])

RECURSIVE FieldOffset(_)
FieldOffset(k) == IF k = 1 THEN 0 ELSE FieldOffset(k - 1) + FieldSize(k - 1)

\* C15: formatAnalysis returns a labelled list for exactly the non-empty
\* fields, in the order Imports, Exports, Functions, Classes, Methods,
\* Components; the label stands two spaces and every entry four spaces deeper
\* than the file's line, one entry a line in the field's order; an all-empty
\* analysis, that of a .vue file or of an unrecognised extension included,
\* gives no line.
C15_FormatAnalysis ==
    (anStage = "formatted") =>
        /\ Len(anLines) = FieldOffset(6) + FieldSize(6)
        /\ \A k \in 1..6 :
               LET items == anAnalysis[FieldOrder[k]]
                   at    == FieldOffset(k)
               IN  items # <<>> =>
                       /\ anLines[at + 1] = [indent |-> anLevel, mark |-> FieldLabels[k], name |-> <<>>]
                       /\ \A i \in 1..Len(items) :
                              anLines[at + 1 + i] =
                                  [indent |-> anLevel, mark |-> "    - ", name |-> items[i]]
        /\ (\A k \in 1..6 : anAnalysis[FieldOrder[k]] = <<>>) => anLines = <<>>
        /\ anExt \in {ExtVue, ExtMd} => anLines = <<>>

\* a FileAnalysis with an empty field between non-empty ones, formatted for a
\* file below the root
C15_Witness ==
    /\ anStage = "formatted"
    /\ anLevel > 0
    /\ anAnalysis.imports # <<>>
    /\ anAnalysis.exports = <<>>
    /\ Len(anAnalysis.functions) = 2
    /\ anAnalysis.components # <<>>
    /\ anLines # <<>>

====
